---- MODULE Spec2Model ----
(***************************************************************************)
(* Verification model of the browser client of rodneys-brain-live: the     *)
(* streaming decoder generateCode (frontend/src/lib/api.js, both the       *)
(* Gemini data-stream variant and the SSE variant kept in the same file)   *)
(* and the part of the Generator page that drives it.                      *)
(*                                                                         *)
(* Text is a sequence of one-character strings.  The characters that occur *)
(* are those of Alphabet; all of them are ASCII, so TextDecoder.decode     *)
(* maps each byte of a chunk to exactly one character.                     *)
(***************************************************************************)
EXTENDS Integers, Sequences, FiniteSets, TLC

VARIABLES
  body,         \* the bytes the server will send that are not yet delivered
  sent,         \* the bytes already delivered by reader.read()
  pc,           \* position of the generateCode call
  response,     \* outcome of fetch: "none", "ok", "notok", "neterr"
  promise,      \* the promise generateCode returned: "none", "pending", "fulfilled", "rejected"
  fullCode,     \* api.js:224 accumulated raw text (Gemini variant)
  buffer,       \* api.js:96 raw chunk buffer (SSE variant)
  events,       \* every value passed to onEvent, in order
  decoded,      \* history: the payload texts appended to fullCode, in order
  reads,        \* history: number of reader.read() calls that returned
  lastRead,     \* history: how the latest reader.read() returned: "none", "chunk", "done", "threw"
  requests,     \* history: number of fetch calls made
  gpc,          \* position of Generator.startGeneration
  generating,   \* Generator state (part_004:32)
  project,      \* Generator state (part_004:30)
  files,        \* Generator state (part_004:33): function from file name to content
  activeFile,   \* Generator state (part_004:34)
  previewHtml,  \* Generator state (part_004:35)
  logs,         \* Generator state (part_004:36): sequence of [type, message]
  closedActive, \* activeFile as the running onEvent callback closed over it
  stripIn,      \* a text the display-text derivation is applied to
  outs,         \* the results of applying the derivation to stripIn repeatedly
  calls,        \* two generateCode calls running side by side, each with its locals
  pay,          \* the PaymentSuccess page: part_002
  gen,          \* the Generator page's loads and sessions in flight: part_004
  dash,         \* the Dashboard page's project list and deletions: Dashboard.jsx
  auth,         \* AuthProvider, localStorage, the AuthModal and the route shown
  chat          \* the /api/chat handler's latest request and response: chat.js

vars == <<body, sent, pc, response, promise, fullCode, buffer, events, decoded,
          reads, lastRead, requests, gpc, generating, project, files, activeFile,
          previewHtml, logs, closedActive, stripIn, outs, calls,
          pay, gen, dash, auth, chat>>

\* the pages and the handler beside the generation session
pages == <<pay, gen, dash, auth, chat>>

\* the variables a generateCode session and the Generator page leave alone
aside == <<stripIn, outs, calls, pages>>

-----------------------------------------------------------------------------
(* Characters and text                                                      *)

NL == "\n"
QUOTE == "\""
BACKSLASH == "\\"
\* the grave accent U+0060; written ^ here because a TLA+ string cannot hold it
BACKTICK == "^"
SPACE == " "

\* s[i..j], empty when j < i
Slice(s, i, j) == IF j < i THEN <<>> ELSE SubSeq(s, i, j)

\* String.prototype.slice(k): the text from 0-based offset k on
SliceFrom(s, k) == Slice(s, k + 1, Len(s))

\* whether p occurs in s at 1-based position i
HasAt(s, i, p) == /\ i >= 1
                  /\ i + Len(p) - 1 <= Len(s)
                  /\ \A k \in 1..Len(p) : s[i + k - 1] = p[k]

\* String.prototype.startsWith
StartsWith(s, p) == HasAt(s, 1, p)

RECURSIVE Concat(_)
\* the concatenation of a sequence of texts
Concat(ss) == IF ss = <<>> THEN <<>> ELSE Head(ss) \o Concat(Tail(ss))

RECURSIVE SplitFrom(_, _, _)
\* helper of Split: the pieces of s from position i on, cur being the piece begun
SplitFrom(s, i, cur) ==
  IF i > Len(s) THEN <<cur>>
  ELSE IF s[i] = NL THEN <<cur>> \o SplitFrom(s, i + 1, <<>>)
  ELSE SplitFrom(s, i + 1, Append(cur, s[i]))

\* String.prototype.split(NL): always at least one piece; the last piece is
\* what follows the last newline (empty when the text ends with a newline)
Split(s) == SplitFrom(s, 1, <<>>)

-----------------------------------------------------------------------------
(* Fence stripping: api.js:232 and api.js:245                               *)

Fence == <<BACKTICK, BACKTICK, BACKTICK>>

\* an alternation that lacks css
TagsWithoutCss == << <<"h","t","m","l">>,
                     <<"j","a","v","a","s","c","r","i","p","t">>,
                     <<"t","s","x">>,
                     <<"j","s","x">> >>

\* the alternation (html|javascript|css|tsx|jsx) of the first regular expression
Tags == << <<"h","t","m","l">>,
           <<"j","a","v","a","s","c","r","i","p","t">>,
           <<"c","s","s">>,
           <<"t","s","x">>,
           <<"j","s","x">> >>

\* length of the match of /FFF(html|javascript|css|tsx|jsx)?\n/ (F the grave accent) at position i,
\* 0 when it does not match there (no tag is a prefix of another, so at most
\* one alternative can match)
OpenMatchLen(s, i) ==
  IF ~HasAt(s, i, Fence) THEN 0
  ELSE IF \E t \in 1..Len(Tags) : HasAt(s, i + 3, Tags[t] \o <<NL>>)
       THEN 3 + Len(Tags[CHOOSE t \in 1..Len(Tags) : HasAt(s, i + 3, Tags[t] \o <<NL>>)]) + 1
       ELSE IF HasAt(s, i + 3, <<NL>>) THEN 4 ELSE 0

RECURSIVE ReplaceOpen(_, _)
\* .replace(/FFF(html|javascript|css|tsx|jsx)?\n/ (F the grave accent)g, ''): left to right,
\* matches do not overlap
ReplaceOpen(s, i) ==
  IF i > Len(s) THEN <<>>
  ELSE LET m == OpenMatchLen(s, i)
       IN IF m > 0 THEN ReplaceOpen(s, i + m)
          ELSE <<s[i]>> \o ReplaceOpen(s, i + 1)

RECURSIVE ReplaceFence(_, _)
\* .replace(/FFF/g, '')
ReplaceFence(s, i) ==
  IF i > Len(s) THEN <<>>
  ELSE IF HasAt(s, i, Fence) THEN ReplaceFence(s, i + 3)
  ELSE <<s[i]>> \o ReplaceFence(s, i + 1)

\* a stripper whose second replacement is not global: only the first triple
\* grave accent left by the first replacement is removed
StripFirstFenceOnly(s) ==
  LET t == ReplaceOpen(s, 1)
      hits == {i \in 1..Len(t) : HasAt(t, i, Fence)}
  IN IF hits = {} THEN t
     ELSE LET i == CHOOSE h \in hits : \A g \in hits : h <= g
          IN Slice(t, 1, i - 1) \o SliceFrom(t, i + 2)

\* a stripper that stops after the first replacement
StripOpenOnly(s) == ReplaceOpen(s, 1)

\* a stripper that forgets the first replacement (opening markers with a tag)
StripFenceOnly(s) == ReplaceFence(s, 1)

\* the display text of an accumulated text
Strip(s) == ReplaceFence(ReplaceOpen(s, 1), 1)

-----------------------------------------------------------------------------
(* JSON.parse (api.js:114, api.js:243) and JSON.stringify, exact for texts  *)
(* over Alphabet.  Over these characters a text is valid JSON exactly when, *)
(* after trimming blanks, it is a string literal or the number 0.           *)

Alphabet == {"0", ":", QUOTE, BACKSLASH, NL, BACKTICK, SPACE,
             "a", "d", "h", "l", "m", "n", "t", "x"}

TAB == "\t"

\* the character an escape \e stands for; "" when \e is no escape
Unescape(e) ==
  CASE e = QUOTE -> QUOTE
    [] e = BACKSLASH -> BACKSLASH
    [] e = "/" -> "/"
    [] e = "n" -> NL
    [] e = "t" -> TAB
    [] e = "b" -> "U+0008"
    [] e = "f" -> "\f"
    [] e = "r" -> "\r"
    [] OTHER -> ""

RECURSIVE TrimLeft(_)
TrimLeft(p) == IF p # <<>> /\ Head(p) = SPACE THEN TrimLeft(Tail(p)) ELSE p

RECURSIVE TrimRight(_)
TrimRight(p) ==
  IF p # <<>> /\ p[Len(p)] = SPACE THEN TrimRight(Slice(p, 1, Len(p) - 1)) ELSE p

RECURSIVE ParseString(_, _, _)
\* the characters of the string literal p from position i on (position 1 is
\* the opening quote); acc is what is decoded so far
ParseString(p, i, acc) ==
  IF i > Len(p) THEN [ok |-> FALSE, text |-> <<>>]
  ELSE IF p[i] = QUOTE THEN [ok |-> i = Len(p), text |-> acc]
  ELSE IF p[i] = BACKSLASH
       THEN IF i + 1 > Len(p) \/ Unescape(p[i + 1]) = ""
            THEN [ok |-> FALSE, text |-> <<>>]
            ELSE ParseString(p, i + 2, Append(acc, Unescape(p[i + 1])))
  ELSE IF p[i] \in {NL, TAB} THEN [ok |-> FALSE, text |-> <<>>]
  ELSE ParseString(p, i + 1, Append(acc, p[i]))

\* JSON.parse(p): ok = FALSE when it throws SyntaxError; kind is the type of
\* the value and text is String(value), what += appends to a string
JSONparse(p) ==
  LET q == TrimRight(TrimLeft(p))
  IN IF q # <<>> /\ Head(q) = QUOTE
     THEN LET r == ParseString(q, 2, <<>>)
          IN [ok |-> r.ok, kind |-> "string", text |-> r.text]
     ELSE IF q = <<"0">> THEN [ok |-> TRUE, kind |-> "number", text |-> <<"0">>]
     ELSE [ok |-> FALSE, kind |-> "none", text |-> <<>>]

RECURSIVE EscapeChars(_)
EscapeChars(t) ==
  IF t = <<>> THEN <<>>
  ELSE (CASE Head(t) = QUOTE -> <<BACKSLASH, QUOTE>>
          [] Head(t) = BACKSLASH -> <<BACKSLASH, BACKSLASH>>
          [] Head(t) = NL -> <<BACKSLASH, "n">>
          [] OTHER -> <<Head(t)>>) \o EscapeChars(Tail(t))

\* JSON.stringify of a string, as the server's data stream writes a payload
JSONstringify(t) == <<QUOTE>> \o EscapeChars(t) \o <<QUOTE>>

-----------------------------------------------------------------------------
(* The response bodies the model draws from                                 *)

\* the largest number of record lines of a drawn body
MaxLines == 3

\* the largest number of chunks a body is delivered in
MaxChunks == 3

\* a record line of the data stream: the marker 0: and a payload
Record(payload) == <<"0", ":">> \o payload

\* lines a Gemini data stream body is drawn from: a valid record, a line with
\* a wrong prefix, a record whose payload is not valid JSON, and a record
\* whose payload is valid JSON but not a string literal
ValidLine == Record(JSONstringify(<<"d">>))
WrongPrefixLine == <<"d">> \o ValidLine
BadJsonLine == Record(<<QUOTE, "d">>)
NumberLine == Record(<<"0">>)
BaseLines == {ValidLine, WrongPrefixLine, BadJsonLine, NumberLine}

\* the lines the malformed-line property calls invalid
InvalidLines == {WrongPrefixLine, BadJsonLine}

RECURSIVE JoinLines(_)
\* every line followed by a newline
JoinLines(ls) == IF ls = <<>> THEN <<>> ELSE Head(ls) \o <<NL>> \o JoinLines(Tail(ls))

\* a body without its last newline: the stream ended mid-line
DropLastNL(b) == IF b = <<>> THEN b ELSE Slice(b, 1, Len(b) - 1)

LineSeqs == UNION {[1..n -> BaseLines] : n \in 0..MaxLines}

\* the text of end-to-end scenario B, "dx" standing for the markup between
\* the fences
FenceText == Fence \o <<"h", "t", "m", "l", NL, "d", "x">> \o Fence
FenceDisplay == <<"d", "x">>

\* the bodies that carry FenceText in three records, split at any two points
FenceBodies ==
  {JoinLines(<<Record(JSONstringify(Slice(FenceText, 1, i))),
               Record(JSONstringify(Slice(FenceText, i + 1, j))),
               Record(JSONstringify(Slice(FenceText, j + 1, Len(FenceText))))>>) :
     <<i, j>> \in {ij \in (0..Len(FenceText)) \X (0..Len(FenceText)) : ij[1] <= ij[2]}}

Bodies == {JoinLines(ls) : ls \in LineSeqs}
            \cup {DropLastNL(JoinLines(ls)) : ls \in {x \in LineSeqs : Len(x) < MaxLines}}
            \cup FenceBodies

\* messages of the failures the environment produces
FetchErrors == {"Failed to fetch"}
ReadErrors == {"network error"}

-----------------------------------------------------------------------------
(* Events: the values generateCode passes to onEvent                        *)

StatusEvent(msg) == [type |-> "status", content |-> <<msg>>]
FileEvent(display) == [type |-> "file", filename |-> "index.html", content |-> display]
CompleteEvent == [type |-> "complete", content |-> <<"Code generation complete!">>]
PreviewEvent(display) == [type |-> "preview", content |-> display]
ErrorEvent(msg) == [type |-> "error", content |-> <<"System Error: ", msg>>]

IsType(ev, t) == "type" \in DOMAIN ev /\ ev.type = t

\* the events of type t in evs, in order
OfType(evs, t) == SelectSeq(evs, LAMBDA ev : IsType(ev, t))

-----------------------------------------------------------------------------
(* generateCode, Gemini variant: api.js:210-254                             *)

\* an entry that delivers nothing before the request
EntryEventsNone == <<>>

\* api.js:212
EntryEvents == <<StatusEvent("Waking up Rodney's Brain...")>>

\* a status check that lets every response through
ResponseOkAlways(r) == TRUE

\* api.js:220, response.ok
ResponseOk(r) == r = "ok"

\* api.js:226
BodyEvents == <<StatusEvent("Writing masterpiece...")>>

\* an end of stream that announces the final text as a file event
DoneEventsFile(code) == <<CompleteEvent, FileEvent(Strip(code))>>

\* api.js:231-233
DoneEvents(code) == <<CompleteEvent, PreviewEvent(Strip(code))>>

\* a catch block that also announces completion
CatchEventsThenComplete(msg) == <<ErrorEvent(msg), CompleteEvent>>

\* a catch block that drops the failure's message
CatchEventsGeneric(msg) == <<ErrorEvent("Generation failed")>>

\* api.js:251-253
CatchEvents(msg) == <<ErrorEvent(msg)>>

\* a line handler whose file event carries only the newly decoded payload
ProcessLineDelta(st, line) ==
  IF ~StartsWith(line, <<"0", ":">>) THEN st
  ELSE LET text == JSONparse(SliceFrom(line, 2))
       IN IF ~text.ok THEN st
          ELSE [fullCode |-> st.fullCode \o text.text,
                events |-> Append(st.events, FileEvent(Strip(text.text))),
                decoded |-> Append(st.decoded, text.text)]

\* a line handler that replaces the accumulated text by the new payload
ProcessLineReset(st, line) ==
  IF ~StartsWith(line, <<"0", ":">>) THEN st
  ELSE LET text == JSONparse(SliceFrom(line, 2))
       IN IF ~text.ok THEN st
          ELSE [fullCode |-> text.text,
                events |-> Append(st.events, FileEvent(Strip(text.text))),
                decoded |-> Append(st.decoded, text.text)]

\* api.js:241-248, one line of a chunk; st = [fullCode, events, decoded]
ProcessLine(st, line) ==
  IF ~StartsWith(line, <<"0", ":">>) THEN st
  ELSE LET text == JSONparse(SliceFrom(line, 2))
       IN IF ~text.ok THEN st
          ELSE LET code == st.fullCode \o text.text
               IN [fullCode |-> code,
                   events |-> Append(st.events, FileEvent(Strip(code))),
                   decoded |-> Append(st.decoded, text.text)]

RECURSIVE ProcessLines(_, _)
\* api.js:240, the loop over the lines of a chunk
ProcessLines(st, lines) ==
  IF lines = <<>> THEN st
  ELSE ProcessLines(ProcessLine(st, Head(lines)), Tail(lines))

\* api.js:237-249: what one chunk does to the accumulated text that is code,
\* with the events it emits and the payloads it decodes
ProcessChunk(code, chunk) ==
  ProcessLines([fullCode |-> code, events |-> <<>>, decoded |-> <<>>], Split(chunk))

-----------------------------------------------------------------------------
(* Generator page: part_004 (pages/Generator)                               *)

\* part_004:80-83 addLog (the timestamp is left out)
LogEntry(type, message) == [type |-> type, message |-> message]

\* a store that keeps only the entry written last
PutFileOnly(fs, name, content) == [f \in {name} |-> content]

\* part_004:103, { ...prev, [name]: content }
PutFile(fs, name, content) ==
  [f \in DOMAIN fs \cup {name} |-> IF f = name THEN content ELSE fs[f]]

\* part_004:96-121, the onEvent callback; g = [logs, files, activeFile, previewHtml].
\* captured is activeFile as the callback's closure captured it
Sink(g, ev, captured) ==
  IF IsType(ev, "status")
  THEN [g EXCEPT !.logs = Append(@, LogEntry("info", ev.content))]
  ELSE IF IsType(ev, "file")
  THEN [g EXCEPT !.logs = Append(@, LogEntry("success", <<"Generated: ", ev.filename>>)),
                 !.files = PutFile(@, ev.filename, ev.content),
                 !.activeFile = IF captured = "" \/ captured = "index.html"
                                THEN ev.filename ELSE @]
  ELSE IF IsType(ev, "preview")
  THEN [g EXCEPT !.previewHtml = ev.content,
                 !.logs = Append(@, LogEntry("success", <<"Preview ready!">>))]
  ELSE IF IsType(ev, "complete")
  THEN [g EXCEPT !.logs = Append(@, LogEntry("success", ev.content))]
  ELSE IF IsType(ev, "error")
  THEN [g EXCEPT !.logs = Append(@, LogEntry("error", ev.content))]
  ELSE g

RECURSIVE SinkAll(_, _, _)
SinkAll(g, evs, captured) ==
  IF evs = <<>> THEN g
  ELSE SinkAll(Sink(g, Head(evs), captured), Tail(evs), captured)

\* the Generator state the callback writes
SinkState == [logs |-> logs, files |-> files, activeFile |-> activeFile,
              previewHtml |-> previewHtml]

\* generateCode passes the events evs to onEvent, in order, the Generator
\* state being g when the first of them arrives
EmitFrom(g, evs) ==
  /\ events' = events \o evs
  /\ LET h == SinkAll(g, evs, closedActive')
     IN /\ logs' = h.logs
        /\ files' = h.files
        /\ activeFile' = h.activeFile
        /\ previewHtml' = h.previewHtml

Emit(evs) == closedActive' = closedActive /\ EmitFrom(SinkState, evs)

\* the project the page shows; its prompt is what is generated from
Prompt == "a landing page"
LoadedProject == [id |-> "p1", prompt |-> Prompt, status |-> "created"]

\* the status values projectsApi.get may answer with after a generation
ReloadStatuses == {"created", "completed"}

-----------------------------------------------------------------------------
(* Actions, Gemini variant                                                  *)

\* part_004:85-96 startGeneration up to its await, with the synchronous start
\* of generateCode (api.js:211-218): the first status event, then fetch
StartGeneration ==
  /\ gpc = "idle"
  /\ pc = "idle"
  /\ generating' = TRUE
  /\ closedActive' = activeFile
  /\ EmitFrom([logs |-> <<LogEntry("info", <<"Starting Famous AI code generation...">>),
                          LogEntry("info", <<"Prompt: ", project.prompt>>)>>,
               files |-> <<>>,
               activeFile |-> activeFile,
               previewHtml |-> previewHtml],
              EntryEvents)
  /\ requests' = requests + 1
  /\ pc' = "fetch"
  /\ promise' = "pending"
  /\ gpc' = "awaitGenerate"
  /\ UNCHANGED <<lastRead, body, sent, response, fullCode, buffer, decoded, reads, project>>
  /\ UNCHANGED aside

\* a catch block that reports the failure and goes back to the request
CaughtRetry(msg) ==
  /\ Emit(CatchEvents(msg))
  /\ pc' = "fetch"
  /\ promise' = promise

\* the catch block and the return of the async function: api.js:251-254
Caught(msg) ==
  /\ Emit(CatchEvents(msg))
  /\ pc' = "done"
  /\ promise' = "fulfilled"

\* api.js:214-226, fetch resolves with a response; a success carries body b
FetchResponds(r, b) ==
  /\ pc = "fetch"
  /\ response' = r
  /\ IF ResponseOk(r)
     THEN /\ body' = b
          /\ Emit(BodyEvents)
          /\ pc' = "read"
          /\ UNCHANGED promise
     ELSE /\ Caught("Brain Connection Failed")
          /\ UNCHANGED body
  /\ UNCHANGED <<lastRead, sent, fullCode, buffer, decoded, reads, requests, gpc,
                 generating, project>>
  /\ UNCHANGED aside

\* api.js:214, fetch rejects (no response at all)
FetchFails(msg) ==
  /\ pc = "fetch"
  /\ response' = "neterr"
  /\ Caught(msg)
  /\ UNCHANGED <<lastRead, body, sent, fullCode, buffer, decoded, reads, requests, gpc,
                 generating, project>>
  /\ UNCHANGED aside

\* the chunk the k-th delivery may carry: any non-empty prefix of what is
\* left, the last delivery the bound allows carrying all of it
ChunkSizes == IF reads + 1 >= MaxChunks THEN {Len(body)} ELSE 1..Len(body)

\* api.js:229 and 237-249, reader.read() yields a chunk of k bytes
ReadChunk(k) ==
  /\ pc = "read"
  /\ body # <<>>
  /\ k \in ChunkSizes
  /\ LET chunk == Slice(body, 1, k)
         st == ProcessChunk(fullCode, chunk)
     IN /\ body' = SliceFrom(body, k)
        /\ sent' = sent \o chunk
        /\ fullCode' = st.fullCode
        /\ decoded' = decoded \o st.decoded
        /\ Emit(st.events)
  /\ reads' = reads + 1
  /\ lastRead' = "chunk"
  /\ UNCHANGED <<pc, response, promise, buffer, requests, gpc, generating, project>>
  /\ UNCHANGED aside

\* api.js:229-235, reader.read() signals the end of the stream
ReadDone ==
  /\ pc = "read"
  /\ body = <<>>
  /\ Emit(DoneEvents(fullCode))
  /\ pc' = "done"
  /\ promise' = "fulfilled"
  /\ reads' = reads + 1
  /\ lastRead' = "done"
  /\ UNCHANGED <<body, sent, response, fullCode, buffer, decoded, requests, gpc,
                 generating, project>>
  /\ UNCHANGED aside

\* api.js:229 and 251-253, reader.read() rejects
ReadThrows(msg) ==
  /\ pc = "read"
  /\ Caught(msg)
  /\ reads' = reads + 1
  /\ lastRead' = "threw"
  /\ UNCHANGED <<body, sent, response, fullCode, buffer, decoded, requests, gpc,
                 generating, project>>
  /\ UNCHANGED aside

-----------------------------------------------------------------------------
(* Actions, Generator after generateCode settled: part_004:122-131          *)

session == <<body, sent, pc, response, promise, fullCode, buffer, events,
             decoded, reads, lastRead, requests>>

\* part_004:124, the await of generateCode returned: projectsApi.get is called
ReloadProject ==
  /\ gpc = "awaitGenerate"
  /\ promise = "fulfilled"
  /\ gpc' = "awaitReload"
  /\ UNCHANGED <<session, generating, project, files, activeFile, previewHtml,
                 logs, closedActive>>
  /\ UNCHANGED aside

\* part_004:124-125 and 129-131, projectsApi.get answers
ReloadAnswers(st) ==
  /\ gpc = "awaitReload"
  /\ project' = [project EXCEPT !.status = st]
  /\ generating' = FALSE
  /\ gpc' = "finished"
  /\ UNCHANGED <<session, files, activeFile, previewHtml, logs, closedActive>>
  /\ UNCHANGED aside

\* part_004:127-131, projectsApi.get rejects
ReloadFails(msg) ==
  /\ gpc = "awaitReload"
  /\ logs' = Append(logs, LogEntry("error", <<"Generation failed: ", msg>>))
  /\ generating' = FALSE
  /\ gpc' = "finished"
  /\ UNCHANGED <<session, project, files, activeFile, previewHtml, closedActive>>
  /\ UNCHANGED aside

\* part_004:127-131, the await of generateCode threw
GenerateRejected ==
  /\ gpc = "awaitGenerate"
  /\ promise = "rejected"
  /\ LET message == IF response = "notok" THEN "Generation failed"
                    ELSE CHOOSE m \in FetchErrors : TRUE
     IN logs' = Append(logs, LogEntry("error", <<"Generation failed: ", message>>))
  /\ generating' = FALSE
  /\ gpc' = "finished"
  /\ UNCHANGED <<session, project, files, activeFile, previewHtml, closedActive>>
  /\ UNCHANGED aside

-----------------------------------------------------------------------------
(* Specification of the Gemini variant with the Generator page              *)

\* a generateCode call before it started: api.js:210
IdleCall == [pc |-> "idle", response |-> "none", body |-> <<>>, chunks |-> <<>>,
             fullCode |-> <<>>, events |-> <<>>, lastRead |-> "none"]

\* PaymentSuccess before it mounts: part_002:25-28 (useState initial values)
PayUnmounted == [pc |-> "unmounted", status |-> "loading", paymentData |-> "none",
                 attempts |-> 0, captured |-> 0, requests |-> 0, failures |-> 0]

\* the Generator page before it mounts: part_004:30-32
GenUnmounted == [loaded |-> FALSE, generating |-> FALSE, loads |-> 0,
                 streaming |-> 0, reloading |-> 0, started |-> 0, left |-> FALSE]

\* the Dashboard before it mounts: Dashboard.jsx:44-45
DashUnmounted == [pc |-> "unmounted", projects |-> <<>>, pending |-> {},
                  deleted |-> {}, clicks |-> 0]

\* the browser before the page is loaded
AuthUnloaded == [pc |-> "unloaded", token |-> "none", storedUser |-> FALSE,
                 user |-> "none", isAuthenticated |-> FALSE, loading |-> TRUE,
                 getMe |-> "none", login |-> "none", modalOpen |-> FALSE,
                 modalError |-> FALSE, lastLogin |-> "none", route |-> "/",
                 leaving |-> FALSE, earlyRedirect |-> FALSE,
                 dataRequested |-> FALSE, unauthData |-> FALSE]

\* the handler before any request: chat.js:12
ChatIdle == [status |-> 0, method |-> "none", json |-> "none", model |-> "none",
             bodyRead |-> FALSE, modelCalled |-> FALSE, escaped |-> FALSE,
             errorBody |-> FALSE]

\* every page beside the generation session before it mounts
PagesIdle ==
  /\ pay = PayUnmounted
  /\ gen = GenUnmounted
  /\ dash = DashUnmounted
  /\ auth = AuthUnloaded
  /\ chat = ChatIdle

\* the Generator page loaded with its project, generateCode not yet called
PageInit ==
  /\ body = <<>>
  /\ sent = <<>>
  /\ pc = "idle"
  /\ response = "none"
  /\ promise = "none"
  /\ fullCode = <<>>
  /\ buffer = <<>>
  /\ events = <<>>
  /\ decoded = <<>>
  /\ reads = 0
  /\ lastRead = "none"
  /\ requests = 0
  /\ gpc = "idle"
  /\ generating = FALSE
  /\ project = LoadedProject
  /\ files = <<>>
  /\ activeFile = "index.html"
  /\ previewHtml = <<>>
  /\ logs = <<>>
  /\ closedActive = "index.html"

Init ==
  /\ PageInit
  /\ stripIn = <<>>
  /\ outs = <<>>
  /\ calls = [i \in 1..2 |-> IdleCall]
  /\ PagesIdle

Next ==
  \/ StartGeneration
  \/ \E r \in {"ok", "notok"}, b \in Bodies : FetchResponds(r, b)
  \/ \E msg \in FetchErrors : FetchFails(msg)
  \/ \E k \in 1..Len(body) : ReadChunk(k)
  \/ ReadDone
  \/ \E msg \in ReadErrors : ReadThrows(msg)
  \/ ReloadProject
  \/ \E st \in ReloadStatuses : ReloadAnswers(st)
  \/ \E msg \in FetchErrors : ReloadFails(msg)

Spec == Init /\ [][Next]_vars


-----------------------------------------------------------------------------
(* generateCode, SSE variant: api.js:77-128                                 *)

\* api.js:112, the prefix of an SSE data line
DataPrefix == <<"d", "a", "t", "a", ":", SPACE>>

\* lines an SSE body is drawn from: a data line with a JSON payload, a data
\* line whose payload is not valid JSON, and a line that is no data line
DataLine == DataPrefix \o JSONstringify(<<"d">>)
BadDataLine == DataPrefix \o <<QUOTE, "d">>
OtherLine == <<":", SPACE, "h">>
SSEBaseLines == {DataLine, BadDataLine, OtherLine}

SSELineSeqs == UNION {[1..n -> SSEBaseLines] : n \in 0..MaxLines}

SSEBodies == {JoinLines(ls) : ls \in SSELineSeqs}
               \cup {DropLastNL(JoinLines(ls)) : ls \in {x \in SSELineSeqs : Len(x) < MaxLines}}

\* api.js:112-119, one complete line; evs are the values passed to onEvent
SSEProcessLine(evs, line) ==
  IF ~StartsWith(line, DataPrefix) THEN evs
  ELSE LET data == JSONparse(SliceFrom(line, 6))
       IN IF ~data.ok THEN evs
          ELSE Append(evs, [kind |-> data.kind, text |-> data.text])

RECURSIVE SSEProcessLines(_, _)
\* api.js:111, the loop over the complete lines
SSEProcessLines(evs, lines) ==
  IF lines = <<>> THEN evs
  ELSE SSEProcessLines(SSEProcessLine(evs, Head(lines)), Tail(lines))

\* api.js:107-120: what one chunk does to the buffer buf, with the values it
\* passes to onEvent; lines.pop() is the last piece of the split
SSEProcessChunk(buf, chunk) ==
  LET lines == Split(buf \o chunk)
  IN [buffer |-> lines[Len(lines)],
      events |-> SSEProcessLines(<<>>, Slice(lines, 1, Len(lines) - 1))]

\* part_004:85-96 startGeneration up to its await, with the synchronous start
\* of generateCode (api.js:78-88): fetch is called, a pending promise returned
SSEStartGeneration ==
  /\ gpc = "idle"
  /\ pc = "idle"
  /\ generating' = TRUE
  /\ closedActive' = activeFile
  /\ EmitFrom([logs |-> <<LogEntry("info", <<"Starting Famous AI code generation...">>),
                          LogEntry("info", <<"Prompt: ", project.prompt>>)>>,
               files |-> <<>>,
               activeFile |-> activeFile,
               previewHtml |-> previewHtml],
              <<>>)
  /\ requests' = requests + 1
  /\ pc' = "fetch"
  /\ promise' = "pending"
  /\ gpc' = "awaitGenerate"
  /\ UNCHANGED <<lastRead, body, sent, response, fullCode, buffer, decoded, reads, project>>
  /\ UNCHANGED aside

\* api.js:89-96 and 124-126, fetch resolves with a response; a success starts
\* processStream, a non-success status throws into .catch(reject)
SSEFetchResponds(r, b) ==
  /\ pc = "fetch"
  /\ response' = r
  /\ IF ResponseOk(r)
     THEN /\ body' = b
          /\ pc' = "read"
          /\ UNCHANGED promise
     ELSE /\ pc' = "done"
          /\ promise' = "rejected"
          /\ UNCHANGED body
  /\ UNCHANGED <<lastRead, sent, fullCode, buffer, events, decoded, reads, requests, gpc,
                 generating, project, files, activeFile, previewHtml, logs,
                 closedActive>>
  /\ UNCHANGED aside

\* api.js:81 and 126, fetch rejects: .catch(reject)
SSEFetchFails ==
  /\ pc = "fetch"
  /\ response' = "neterr"
  /\ pc' = "done"
  /\ promise' = "rejected"
  /\ UNCHANGED <<lastRead, body, sent, fullCode, buffer, events, decoded, reads, requests,
                 gpc, generating, project, files, activeFile, previewHtml, logs,
                 closedActive>>
  /\ UNCHANGED aside

\* api.js:100 and 107-120, reader.read() yields a chunk of k bytes
SSEReadChunk(k) ==
  /\ pc = "read"
  /\ body # <<>>
  /\ k \in ChunkSizes
  /\ LET chunk == Slice(body, 1, k)
         st == SSEProcessChunk(buffer, chunk)
     IN /\ body' = SliceFrom(body, k)
        /\ sent' = sent \o chunk
        /\ buffer' = st.buffer
        /\ Emit(st.events)
  /\ reads' = reads + 1
  /\ lastRead' = "chunk"
  /\ UNCHANGED <<pc, response, promise, fullCode, decoded, requests, gpc,
                 generating, project>>
  /\ UNCHANGED aside

\* api.js:100-105, reader.read() signals the end of the stream: resolve()
SSEReadDone ==
  /\ pc = "read"
  /\ body = <<>>
  /\ pc' = "done"
  /\ promise' = "fulfilled"
  /\ reads' = reads + 1
  /\ lastRead' = "done"
  /\ UNCHANGED <<body, sent, response, fullCode, buffer, events, decoded,
                 requests, gpc, generating, project, files, activeFile,
                 previewHtml, logs, closedActive>>
  /\ UNCHANGED aside

\* api.js:100 and 124, reader.read() rejects: processStream() was called
\* without await and without a catch, so its rejection reaches neither
\* resolve nor reject and the promise generateCode returned stays pending
SSEReadThrows ==
  /\ pc = "read"
  /\ pc' = "failed"
  /\ reads' = reads + 1
  /\ lastRead' = "threw"
  /\ UNCHANGED <<body, sent, response, promise, fullCode, buffer, events,
                 decoded, requests, gpc, generating, project, files, activeFile,
                 previewHtml, logs, closedActive>>
  /\ UNCHANGED aside

NextSSE ==
  \/ SSEStartGeneration
  \/ \E r \in {"ok", "notok"}, b \in SSEBodies : SSEFetchResponds(r, b)
  \/ SSEFetchFails
  \/ \E k \in 1..Len(body) : SSEReadChunk(k)
  \/ SSEReadDone
  \/ SSEReadThrows
  \/ ReloadProject
  \/ \E st \in ReloadStatuses : ReloadAnswers(st)
  \/ \E msg \in FetchErrors : ReloadFails(msg)
  \/ GenerateRejected

SpecSSE == Init /\ [][NextSSE]_vars


-----------------------------------------------------------------------------
(* Properties of a generateCode session                                     *)

\* the stream as the server wrote it: what was delivered and what is left
Stream == sent \o body

\* the session read the whole body and the read signalled the end of stream
EndOfStream == lastRead = "done"

FirstStatus == StatusEvent("Waking up Rodney's Brain...")
SecondStatus == StatusEvent("Writing masterpiece...")

\* C1 (line reassembly): when the stream has ended, the accumulated text and
\* the file events are those of the same stream delivered in chunks split at
\* line boundaries, whatever the chunks were.
C1_LineReassembly ==
  EndOfStream =>
    /\ fullCode = ProcessChunk(<<>>, Stream).fullCode
    /\ OfType(events, "file") = ProcessChunk(<<>>, Stream).events

C3_AtMostOneError ==
  /\ Len(OfType(events, "error")) <= 1
  /\ \A i, j \in 1..Len(events) :
       (i < j /\ IsType(events[i], "error")) => ~IsType(events[j], "complete")

\* a read failed after file events were emitted, and the page went on
C3_Witness ==
  /\ lastRead = "threw"
  /\ gpc = "finished"
  /\ Len(OfType(events, "error")) = 1
  /\ Len(OfType(events, "file")) >= 1

\* C4 (malformed-line resilience): a stream of a valid record, an invalid
\* line and a valid record ends with the accumulated text of the stream
\* without the invalid line, and without an error event.
C4_MalformedLineResilience ==
  \A bad \in InvalidLines :
    (EndOfStream /\ Stream = JoinLines(<<ValidLine, bad, ValidLine>>)) =>
      /\ fullCode = ProcessChunk(<<>>, JoinLines(<<ValidLine, ValidLine>>)).fullCode
      /\ OfType(events, "error") = <<>>
      /\ Len(OfType(events, "complete")) = 1

\* C5 as stated (transport failure by status): after a non-success status the
\* events are one error event and nothing else, and the body was never read.
C5_StatusFailure_ErrorOnly ==
  response = "notok" =>
    /\ Len(events) = 1
    /\ IsType(events[1], "error")
    /\ reads = 0

\* C5 as amended: after a non-success status the events are the initial
\* status event followed by one error event with the generic message, the
\* body was never read, and the session has terminated.
C5_StatusFailure ==
  response = "notok" =>
    /\ events = <<FirstStatus, ErrorEvent("Brain Connection Failed")>>
    /\ reads = 0
    /\ sent = <<>>
    /\ fullCode = <<>>
    /\ pc = "done"
    /\ promise = "fulfilled"

\* the session ended by a non-success status and the page finished
C5_Witness ==
  /\ response = "notok"
  /\ gpc = "finished"


\* a failure ended the session: a non-success status, a fetch that rejected
\* or a read that rejected
SessionFailed == response \in {"notok", "neterr"} \/ lastRead = "threw"

\* the session reached a terminal state, by the end of stream or a failure
SessionTerminal == EndOfStream \/ SessionFailed

\* C6 (completion): once the session is in a terminal state the promise of
\* generateCode is settled, and when nothing more can happen the Generator's
\* generating flag is back to FALSE.
C6_Completion ==
  /\ SessionTerminal => promise \in {"fulfilled", "rejected"}
  /\ (gpc # "idle" /\ ~ENABLED NextSSE) => ~generating

\* C7 (failure propagation): generateCode never rejects to its caller, and a
\* failed session has delivered exactly one error event.
C7_FailurePropagation ==
  /\ promise # "rejected"
  /\ SessionFailed => Len(OfType(events, "error")) = 1

\* the file events the payloads decoded so far call for: the k-th carries the
\* display text of the first k payloads
ExpectedFileEvents ==
  [k \in 1..Len(decoded) |-> FileEvent(Strip(Concat(Slice(decoded, 1, k))))]

\* C8 (read failure): after a read threw, the events hold exactly one error
\* event, it carries the failure's message and is the last event, and the
\* file events emitted before it are all still there, as is the content the
\* Generator stored from them.
C8_ReadFailure ==
  lastRead = "threw" =>
    /\ Len(OfType(events, "error")) = 1
    /\ \E msg \in ReadErrors :
         events[Len(events)] = [type |-> "error", content |-> <<"System Error: ", msg>>]
    /\ OfType(events, "file") = ExpectedFileEvents
    /\ OfType(events, "complete") = <<>>
    /\ decoded # <<>> => files["index.html"] = Strip(fullCode)
    /\ pc = "done"

\* a read threw after two chunks that each produced a file event
C8_Witness ==
  /\ lastRead = "threw"
  /\ reads = 3
  /\ Len(OfType(events, "file")) >= 2
  /\ gpc = "finished"

\* the bodies made of valid records only, each ended by a newline
ValidBodies == {JoinLines([i \in 1..n |-> ValidLine]) : n \in 1..MaxLines}

\* number of newline characters of a text
NumLines(s) == Len(Split(s)) - 1

-----------------------------------------------------------------------------
(* The display-text derivation on its own: api.js:232 and api.js:245        *)

\* the largest length of a drawn text
MaxStripLen == 6

\* the largest number of times the derivation is applied to a text
MaxApply == 2

\* the characters drawn texts are made of; c and s make the tag css and any
\* other tag or plain text
StripAlphabet == {BACKTICK, NL, "c", "s"}

\* tags the regular expression names, and tags it does not name
ListedTags == { <<"h","t","m","l">>, <<"j","a","v","a","s","c","r","i","p","t">>,
                <<"c","s","s">>, <<"t","s","x">>, <<"j","s","x">> }
OtherTags == { <<"p","y">>, <<"c">>, <<"c","s">>, <<"h","t","m">>, <<"c","s","s","x">> }
AnyTags == ListedTags \cup OtherTags \cup {<<>>}

\* an opening fence marker with tag t, followed by rest
Opening(t, rest) == Fence \o t \o <<NL>> \o rest

\* what may follow an opening marker in a drawn text
Rests == {<<>>, <<"d">>, <<"d">> \o Fence, <<BACKTICK, "d">>, Fence \o <<NL, "d">>}

\* grave accents on either side of an opening marker
Sides == {<<>>, <<BACKTICK>>, <<BACKTICK, BACKTICK>>}

\* the texts in which removing an opening marker brings grave accents together
Joined == {pre \o Opening(t, post) : pre \in Sides, t \in AnyTags, post \in Sides}

StripInputs ==
  UNION {[1..n -> StripAlphabet] : n \in 0..MaxStripLen}
    \cup {Opening(t, rest) : t \in AnyTags, rest \in Rests}
    \cup Joined

InitStrip ==
  /\ PageInit
  /\ stripIn \in StripInputs
  /\ outs = <<>>
  /\ calls = [i \in 1..2 |-> IdleCall]
  /\ PagesIdle

\* api.js:245, the derivation applied to the text, then to its own result
ApplyStrip ==
  /\ Len(outs) < MaxApply
  /\ outs' = Append(outs, Strip(IF outs = <<>> THEN stripIn ELSE outs[Len(outs)]))
  /\ UNCHANGED <<session, gpc, generating, project, files, activeFile,
                 previewHtml, logs, closedActive, stripIn, calls, pages>>

NextStrip == ApplyStrip

SpecStrip == InitStrip /\ [][NextStrip]_vars

\* C11 (fence stripping idempotence): applying the derivation to an already
\* stripped text returns it unchanged.
C11_StripIdempotent ==
  \A k \in 2..Len(outs) : outs[k] = outs[1]

\* the derivation was applied twice to a text it changes without emptying it
C11_Witness ==
  /\ Len(outs) >= 2
  /\ outs[1] # stripIn
  /\ outs[1] # <<>>
  /\ \E i \in 1..Len(stripIn) : OpenMatchLen(stripIn, i) > 0

\* the text after the opening marker with tag t that s starts with
AfterOpening(s, t) == SliceFrom(s, 3 + Len(t) + 1)

\* C20 as stated (opening fences are removed whole): for any language tag,
\* the display text of a text that starts with an opening marker is the
\* display text of what follows the marker.
C20_OpeningRemoved_AnyTag ==
  \A t \in AnyTags :
    (outs # <<>> /\ StartsWith(stripIn, Opening(t, <<>>))) =>
      outs[1] = Strip(AfterOpening(stripIn, t))

\* C20 as amended: the marker is removed whole when it has no tag or one of
\* the tags html, javascript, css, tsx, jsx; with any other tag only the
\* three grave accents are removed and the tag and its newline remain.
C20_OpeningRemoved ==
  /\ \A t \in ListedTags \cup {<<>>} :
       (outs # <<>> /\ StartsWith(stripIn, Opening(t, <<>>))) =>
         outs[1] = Strip(AfterOpening(stripIn, t))
  /\ \A t \in OtherTags :
       (outs # <<>> /\ StartsWith(stripIn, Opening(t, <<>>))) =>
         outs[1] = t \o <<NL>> \o Strip(AfterOpening(stripIn, t))

\* a marker tagged css was removed whole, a marker tagged py was not
C20_Witness ==
  /\ outs # <<>>
  /\ \/ /\ stripIn = Opening(<<"c","s","s">>, <<"d">>)
        /\ outs[1] = <<"d">>
     \/ /\ stripIn = Opening(<<"p","y">>, <<"d">>)
        /\ outs[1] = <<"p", "y", NL, "d">>

-----------------------------------------------------------------------------
(* The session as a whole: api.js:210-254                                   *)

\* C12 (initial status): whenever anything was delivered the first event is
\* the initial status event; while the request is pending it is the only
\* event; once the request was issued it is there, also after the request
\* failed by its status or by the network.
C12_InitialStatus ==
  /\ events # <<>> => events[1] = FirstStatus
  /\ pc = "fetch" => events = <<FirstStatus>>
  /\ requests > 0 => events # <<>>
  /\ response \in {"notok", "neterr"} =>
       /\ Len(events) = 2
       /\ events[1] = FirstStatus
       /\ IsType(events[2], "error")

\* the request failed by the network and the page went on
C12_Witness ==
  /\ response = "neterr"
  /\ gpc = "finished"
  /\ IsType(events[1], "status")

\* C13 (full snapshot): the accumulated text is the concatenation of the
\* payloads decoded so far, and the k-th file event is named index.html and
\* carries the display text of the concatenation of the first k payloads.
C13_FullSnapshot ==
  /\ fullCode = Concat(decoded)
  /\ Len(OfType(events, "file")) = Len(decoded)
  /\ \A k \in 1..Len(decoded) :
       LET ev == OfType(events, "file")[k]
       IN /\ ev.filename = "index.html"
          /\ ev.content = Strip(Concat(Slice(decoded, 1, k)))

\* a third file event whose content is longer than the payload decoded last
C13_Witness ==
  /\ Len(decoded) = 3
  /\ Len(OfType(events, "file")) = 3
  /\ Len(OfType(events, "file")[3].content) > Len(decoded[3])

\* C16 (no retry): at most one request is issued; a session that reached a
\* terminal state has issued exactly one, has returned, and waits for no
\* response; a failed session reported exactly one error.
C16_NoRetry ==
  /\ requests <= 1
  /\ SessionTerminal =>
       /\ requests = 1
       /\ pc = "done"
       /\ promise = "fulfilled"
       /\ ~ENABLED (\E r \in {"ok", "notok"}, b \in Bodies : FetchResponds(r, b))
  /\ SessionFailed => Len(OfType(events, "error")) = 1

\* a failed session whose page finished
C16_Witness ==
  /\ SessionFailed
  /\ gpc = "finished"
  /\ requests = 1

\* the complete lines of a text: the pieces of its split but the last, which
\* no newline ended
CompleteLines(s) == Slice(Split(s), 1, Len(Split(s)) - 1)

\* what processing each of the lines once, in order, comes to
InOrder(lines) ==
  ProcessLines([fullCode |-> <<>>, events |-> <<>>, decoded |-> <<>>], lines)

\* C17 (raw chunk buffer invariant): after each pass over a received chunk
\* nothing held back contains a newline, and the payloads decoded and the
\* text accumulated so far are those of every complete line received so
\* far, each processed exactly once, in stream order.
C17_RawChunkBuffer ==
  lastRead = "chunk" =>
    /\ \A i \in 1..Len(buffer) : buffer[i] # NL
    /\ decoded = InOrder(CompleteLines(sent)).decoded
    /\ fullCode = InOrder(CompleteLines(sent)).fullCode

\* C18 (stream ending mid-token): when the stream has ended and its last
\* line was not ended by a newline, there is exactly one complete event, no
\* error event, the session has returned, and the accumulated text is that
\* of the complete lines only.
C18_EndMidToken ==
  (EndOfStream /\ Stream # <<>> /\ Stream[Len(Stream)] # NL) =>
    /\ Len(OfType(events, "complete")) = 1
    /\ OfType(events, "error") = <<>>
    /\ pc = "done"
    /\ fullCode = InOrder(CompleteLines(Stream)).fullCode

\* the lines of ls whose payload is a string literal or no JSON at all
WithoutNumberLines(ls) == SelectSeq(ls, LAMBDA l : l # NumberLine)

\* C19 (only string-literal payloads are consumed): a stream read in one
\* chunk leaves the accumulated text and the file events it leaves without
\* its lines whose payload is JSON that is not a string literal.
C19_StringPayloadsOnly ==
  \A ls \in LineSeqs :
    (EndOfStream /\ reads = 2 /\ Stream = JoinLines(ls)) =>
      /\ fullCode = InOrder(WithoutNumberLines(ls)).fullCode
      /\ OfType(events, "file") = InOrder(WithoutNumberLines(ls)).events

-----------------------------------------------------------------------------
(* The Generator's callback under any events: part_004:96-121               *)

\* the most events one session delivers
MaxEvents == 4

\* the file names and contents file events are drawn from
FileNames == {"index.html", "style.css"}
Contents == {<<"d">>, <<"x">>}

\* a file event for any file name
NamedFileEvent(name, content) ==
  [type |-> "file", filename |-> name, content |-> content]

\* the events a session may pass to onEvent
SinkEvents ==
  {NamedFileEvent(n, c) : n \in FileNames, c \in Contents}
    \cup {SecondStatus, CompleteEvent, PreviewEvent(<<"d">>), ErrorEvent("Generation failed")}

\* generateCode calls onEvent(ev) while startGeneration awaits it
Deliver(ev) ==
  /\ gpc = "awaitGenerate"
  /\ promise = "pending"
  /\ Len(events) < MaxEvents
  /\ Emit(<<ev>>)
  /\ UNCHANGED <<lastRead, body, sent, pc, response, promise, fullCode, buffer,
                 decoded, reads, requests, gpc, generating, project>>
  /\ UNCHANGED aside

NextSink ==
  \/ StartGeneration
  \/ \E ev \in SinkEvents : Deliver(ev)

SpecSink == Init /\ [][NextSink]_vars

\* the file events delivered so far for the file name n
FileEventsFor(n) == SelectSeq(events, LAMBDA ev : IsType(ev, "file") /\ ev.filename = n)

\* C14 (last-write-wins at the sink): the stored files are exactly the names
\* that had a file event in this session, and the content stored for a name
\* is the content of the most recent file event for that name, whatever was
\* delivered for other names since.
C14_LastWriteWins ==
  gpc = "awaitGenerate" =>
    /\ DOMAIN files = {n \in FileNames : FileEventsFor(n) # <<>>}
    /\ \A n \in DOMAIN files :
         files[n] = FileEventsFor(n)[Len(FileEventsFor(n))].content

\* index.html was written twice with different contents, style.css between
\* the two
C14_Witness ==
  /\ Len(events) = 4
  /\ events[2] = NamedFileEvent("index.html", <<"d">>)
  /\ events[3] = NamedFileEvent("style.css", <<"d">>)
  /\ events[4] = NamedFileEvent("index.html", <<"x">>)
  /\ files["index.html"] = <<"x">>
  /\ files["style.css"] = <<"d">>

-----------------------------------------------------------------------------
(* Two generateCode calls with interleaved reads: api.js:210-254            *)

\* the most chunks one of the two calls reads
MaxPairChunks == 2

\* the bodies the two calls are answered with
PairBodies == {JoinLines(<<ValidLine>>), JoinLines(<<ValidLine, ValidLine>>)}

\* a text every call would append to if fullCode were not local to the call
SharedText(cs, i) == cs[1].fullCode

\* api.js:224, let fullCode: the text call i appends to is its own
OwnText(cs, i) == cs[i].fullCode

\* call i goes to the state c; nothing else changes
CallStep(i, c) ==
  /\ calls' = [calls EXCEPT ![i] = c]
  /\ UNCHANGED <<session, gpc, generating, project, files, activeFile,
                 previewHtml, logs, closedActive, stripIn, outs, pages>>

\* api.js:210-214, call i starts: the first status event, then fetch
CallStarts(i) ==
  /\ calls[i].pc = "idle"
  /\ CallStep(i, [calls[i] EXCEPT !.pc = "fetch", !.events = @ \o EntryEvents])

\* api.js:214-226 and 251-253, the fetch of call i resolves
CallFetchResponds(i, r, b) ==
  /\ calls[i].pc = "fetch"
  /\ CallStep(i, IF ResponseOk(r)
                 THEN [calls[i] EXCEPT !.response = r, !.body = b, !.pc = "read",
                                       !.events = @ \o BodyEvents]
                 ELSE [calls[i] EXCEPT !.response = r, !.pc = "done",
                                       !.events = @ \o CatchEvents("Brain Connection Failed")])

\* api.js:214 and 251-253, the fetch of call i rejects
CallFetchFails(i, msg) ==
  /\ calls[i].pc = "fetch"
  /\ CallStep(i, [calls[i] EXCEPT !.response = "neterr", !.pc = "done",
                                  !.events = @ \o CatchEvents(msg)])

\* api.js:229 and 237-249, a read of call i yields a chunk of k bytes
CallReadChunk(i, k) ==
  /\ calls[i].pc = "read"
  /\ calls[i].body # <<>>
  /\ k \in (IF Len(calls[i].chunks) + 1 >= MaxPairChunks
             THEN {Len(calls[i].body)} ELSE 1..Len(calls[i].body))
  /\ LET chunk == Slice(calls[i].body, 1, k)
         st == ProcessChunk(OwnText(calls, i), chunk)
     IN CallStep(i, [calls[i] EXCEPT !.body = SliceFrom(@, k),
                                    !.chunks = Append(@, chunk),
                                    !.fullCode = st.fullCode,
                                    !.events = @ \o st.events,
                                    !.lastRead = "chunk"])

\* api.js:229-235, a read of call i signals the end of the stream
CallReadDone(i) ==
  /\ calls[i].pc = "read"
  /\ calls[i].body = <<>>
  /\ CallStep(i, [calls[i] EXCEPT !.pc = "done", !.lastRead = "done",
                                  !.events = @ \o DoneEvents(OwnText(calls, i))])

\* api.js:229 and 251-253, a read of call i rejects
CallReadThrows(i, msg) ==
  /\ calls[i].pc = "read"
  /\ CallStep(i, [calls[i] EXCEPT !.pc = "done", !.lastRead = "threw",
                                  !.events = @ \o CatchEvents(msg)])

NextPair ==
  \E i \in 1..2 :
    \/ CallStarts(i)
    \/ \E r \in {"ok", "notok"}, b \in PairBodies : CallFetchResponds(i, r, b)
    \/ \E msg \in FetchErrors : CallFetchFails(i, msg)
    \/ \E k \in 1..Len(calls[i].body) : CallReadChunk(i, k)
    \/ CallReadDone(i)
    \/ \E msg \in ReadErrors : CallReadThrows(i, msg)

SpecPair == Init /\ [][NextPair]_vars

RECURSIVE AloneReads(_, _)
\* a call on its own reading the chunks cs one after the other, its
\* accumulated text being code before the first
AloneReads(code, cs) ==
  IF cs = <<>> THEN [fullCode |-> code, events |-> <<>>]
  ELSE LET st == ProcessChunk(code, Head(cs))
           rest == AloneReads(st.fullCode, Tail(cs))
       IN [fullCode |-> rest.fullCode, events |-> st.events \o rest.events]

\* the events a call delivers when it runs alone with the response, the
\* chunks and the ending that c had
Alone(c) ==
  IF c.pc = "idle" THEN <<>>
  ELSE IF c.response = "none" THEN EntryEvents
  ELSE IF c.response = "notok" THEN EntryEvents \o CatchEvents("Brain Connection Failed")
  ELSE IF c.response = "neterr"
  THEN EntryEvents \o CatchEvents(CHOOSE msg \in FetchErrors : TRUE)
  ELSE LET run == AloneReads(<<>>, c.chunks)
       IN EntryEvents \o BodyEvents \o run.events
            \o (IF c.lastRead = "done" THEN DoneEvents(run.fullCode)
                ELSE IF c.lastRead = "threw"
                THEN CatchEvents(CHOOSE msg \in ReadErrors : TRUE)
                ELSE <<>>)

\* C15 (session isolation): however the steps of the two calls interleave,
\* the events of each are those of the same call running alone with its own
\* response, chunks and ending, and its accumulated text is that of its own
\* chunks.
C15_SessionIsolation ==
  \A i \in 1..2 :
    /\ calls[i].events = Alone(calls[i])
    /\ calls[i].fullCode = AloneReads(<<>>, calls[i].chunks).fullCode

\* both calls ran to the end of their streams, the first reading two chunks,
\* and ended with different accumulated texts
C15_Witness ==
  /\ calls[1].lastRead = "done"
  /\ calls[2].lastRead = "done"
  /\ Len(calls[1].chunks) = 2
  /\ calls[1].fullCode = <<"d", "d">>
  /\ calls[2].fullCode = <<"d">>

-----------------------------------------------------------------------------
(* The display text and the accumulated text over a session                 *)

\* the text s holds three grave accents in a row somewhere
HasFence(s) == \E i \in 1..Len(s) : HasAt(s, i, Fence)

\* C21 (no fence marker survives): no result of the display-text derivation
\* holds three grave accents in a row, whatever the text it was applied to.
C21_NoFenceSurvives == \A k \in 1..Len(outs) : ~HasFence(outs[k])

\* removing the opening marker of the text brought three grave accents
\* together, and the result holds none
C21_Witness ==
  /\ outs # <<>>
  /\ stripIn = <<BACKTICK, BACKTICK>> \o Opening(<<"c", "s", "s">>, <<BACKTICK>>)
  /\ ReplaceOpen(stripIn, 1) = Fence
  /\ outs[1] = <<>>

\* C22 (accumulated text is append-only): in every step of a session the
\* accumulated text before the step is a prefix of the accumulated text after
\* it.
C22_AppendOnly == [][StartsWith(fullCode', fullCode)]_vars

\* the text grew twice, a line was skipped, and a failed read ended the
\* session with the text still there
C22_Witness ==
  /\ lastRead = "threw"
  /\ Len(decoded) = 2
  /\ Len(fullCode) = 2
  /\ Stream = JoinLines(<<ValidLine, BadJsonLine, NumberLine>>)

-----------------------------------------------------------------------------
(* The PaymentSuccess page: part_002:20-68                                  *)

\* part_002:29
maxAttempts == 10

\* the most status requests a run of the page issues
MaxPolls == 12

\* what the status endpoint may answer: part_002:49-55
StatusAnswers == {"paid", "expired", "open"}

\* everything but the PaymentSuccess page
notPay == <<session, gpc, generating, project, files, activeFile, previewHtml,
            logs, closedActive, stripIn, outs, calls, gen, dash, auth, chat>>

\* part_002:41-47, pollPaymentStatus up to its await: attempts is the value
\* the function closed over in the render that created it
PollEntry(p) ==
  IF p.captured >= maxAttempts
  THEN [p EXCEPT !.status = "timeout", !.pc = "stopped"]
  ELSE [p EXCEPT !.pc = "request", !.requests = @ + 1]

\* part_002:33-39, the effect of the first render: with a session_id it calls
\* the pollPaymentStatus of that render, which closed over attempts = 0
PayMounts(hasId) ==
  /\ pay.pc = "unmounted"
  /\ pay' = IF hasId THEN PollEntry([pay EXCEPT !.captured = pay.attempts])
            ELSE [pay EXCEPT !.status = "error", !.pc = "stopped"]
  /\ UNCHANGED notPay

\* an answer handler that goes on polling after the payment was reported
AnsweredKeepPolling(p, answer) ==
  IF answer = "paid"
  THEN [p EXCEPT !.paymentData = "data", !.status = "success",
                 !.attempts = @ + 1, !.pc = "timer"]
  ELSE IF answer = "expired"
  THEN [p EXCEPT !.status = "expired", !.pc = "stopped"]
  ELSE [p EXCEPT !.attempts = @ + 1, !.pc = "timer"]

\* part_002:49-63, the rest of the try block after the request answered
Answered(p, answer) ==
  IF answer = "paid"
  THEN [p EXCEPT !.paymentData = "data", !.status = "success", !.pc = "stopped"]
  ELSE IF answer = "expired"
  THEN [p EXCEPT !.status = "expired", !.pc = "stopped"]
  ELSE [p EXCEPT !.attempts = @ + 1, !.pc = "timer"]

\* part_002:47-63, the status request answers
PayAnswers(answer) ==
  /\ pay.pc = "request"
  /\ pay' = Answered(pay, answer)
  /\ UNCHANGED notPay

\* part_002:63-67, the status request fails
PayFails ==
  /\ pay.pc = "request"
  /\ pay' = [pay EXCEPT !.attempts = @ + 1, !.failures = @ + 1, !.pc = "timer"]
  /\ UNCHANGED notPay

\* part_002:62 and 66, the timer fires: setTimeout was given the
\* pollPaymentStatus of the same render, so what it closed over is unchanged
PayTimerFires ==
  /\ pay.pc = "timer"
  /\ pay.requests < MaxPolls
  /\ pay' = PollEntry(pay)
  /\ UNCHANGED notPay

NextPay ==
  \/ \E hasId \in BOOLEAN : PayMounts(hasId)
  \/ \E answer \in StatusAnswers : PayAnswers(answer)
  \/ PayFails
  \/ PayTimerFires

SpecPay == Init /\ [][NextPay]_vars

\* C23 (payment polling is bounded): at most maxAttempts status requests are
\* issued and at most maxAttempts attempts counted, and a page that stopped
\* without a terminal answer shows timeout.
C23_PollingBounded ==
  /\ pay.requests <= maxAttempts
  /\ pay.attempts <= maxAttempts
  /\ (pay.pc = "stopped" /\ pay.requests > 0 /\ pay.status \notin {"success", "expired"})
       => pay.status = "timeout"

\* the page status is terminal: the payment or the expiry was reported
PayTerminal == pay.status \in {"success", "expired"}

\* C28 (terminal states are absorbing): once the status is success or expired
\* no request is pending and no timer runs, and no step changes the page or
\* issues a request; a step in which a request fails leaves the status
\* loading and schedules the next poll.
C28_TerminalAbsorbing ==
  [][/\ PayTerminal => (pay' = pay /\ pay.pc = "stopped")
     /\ PayTerminal' => pay'.pc = "stopped"
     /\ pay'.failures > pay.failures =>
          (pay'.status = pay.status /\ pay'.status = "loading" /\ pay'.pc = "timer")]_vars

\* the payment was reported after requests that failed and requests that
\* answered without a result
C28_Witness ==
  /\ pay.status = "success"
  /\ pay.failures >= 1
  /\ pay.requests >= 3
  /\ pay.attempts > pay.failures

-----------------------------------------------------------------------------
(* The Generator page's loads and sessions: part_004:42-137                 *)

\* the most generation sessions one visit of the page starts
MaxSessions == 3

\* the status values a loaded project may have: part_004:69
ProjectStatuses == {"created", "completed"}

\* everything but the Generator page's loads and sessions
notGen == <<session, gpc, generating, project, files, activeFile, previewHtml,
            logs, closedActive, stripIn, outs, calls, pay, dash, auth, chat>>

\* part_004:85-96, startGeneration up to its await of generateCode
Started(g) == [g EXCEPT !.generating = TRUE, !.streaming = @ + 1, !.started = @ + 1]

\* part_004:42-48 and 54-56, the page mounts or projectId changes while the
\* user is authenticated: the effect calls loadProject
GenNavigates ==
  /\ ~gen.left
  /\ gen.started + gen.loads < MaxSessions
  /\ gen' = [gen EXCEPT !.loads = @ + 1]
  /\ UNCHANGED notGen

\* part_004:56-71 and 75-77, projectsApi.get answers a loadProject: a project
\* that is new starts a generation
GenLoadAnswers(st) ==
  /\ gen.loads > 0
  /\ LET g == [gen EXCEPT !.loads = @ - 1, !.loaded = TRUE]
     IN gen' = IF st = "created" THEN Started(g) ELSE g
  /\ UNCHANGED notGen

\* part_004:72-77, projectsApi.get rejects: the page goes to the dashboard
GenLoadFails ==
  /\ gen.loads > 0
  /\ gen' = [gen EXCEPT !.loads = @ - 1, !.left = TRUE]
  /\ UNCHANGED notGen

\* part_004:134-137 and 85-86, a click on Regenerate
GenRegenerate ==
  /\ ~gen.left
  /\ gen.loaded
  /\ ~gen.generating
  /\ gen.started < MaxSessions
  /\ gen' = Started(gen)
  /\ UNCHANGED notGen

\* part_004:96-124, generateCode of one session returned: the project is
\* requested again
GenStreamEnds ==
  /\ gen.streaming > 0
  /\ gen' = [gen EXCEPT !.streaming = @ - 1, !.reloading = @ + 1]
  /\ UNCHANGED notGen

\* part_004:124-131, the request of one session answered or failed: finally
GenReloadEnds ==
  /\ gen.reloading > 0
  /\ gen' = [gen EXCEPT !.reloading = @ - 1, !.generating = FALSE]
  /\ UNCHANGED notGen

NextGen ==
  \/ GenNavigates
  \/ \E st \in ProjectStatuses : GenLoadAnswers(st)
  \/ GenLoadFails
  \/ GenRegenerate
  \/ GenStreamEnds
  \/ GenReloadEnds

SpecGen == Init /\ [][NextGen]_vars

\* the startGeneration calls that have not reached their finally block
InFlight == gen.streaming + gen.reloading

\* C24 (at most one generation session in flight): never more than one
\* session runs, and generating is TRUE exactly while one runs.
C24_OneSessionInFlight ==
  /\ InFlight <= 1
  /\ gen.generating <=> InFlight = 1

-----------------------------------------------------------------------------
(* The Dashboard's project list and deletions: Dashboard.jsx:51-102         *)

\* the most clicks on a delete button in one visit
MaxDeletes == 3

\* the identifiers of the projects the server holds at first
ProjectIds == {"p1", "p2", "p3"}

\* the list projectsApi.list answers with
ServerList == <<"p1", "p2", "p3">>

\* everything but the Dashboard page
notDash == <<session, gpc, generating, project, files, activeFile, previewHtml,
             logs, closedActive, stripIn, outs, calls, pay, gen, auth, chat>>

\* the members of a list
Members(list) == {list[i] : i \in 1..Len(list)}

\* projects.filter(p => p.id !== id)
Without(list, id) == SelectSeq(list, LAMBDA x : x # id)

\* Dashboard.jsx:51-68, the page mounts and loadProjects answers with the
\* list, or fails and leaves the list empty
DashLoads(ok) ==
  /\ dash.pc = "unmounted"
  /\ dash' = [dash EXCEPT !.pc = "shown",
                          !.projects = IF ok THEN ServerList ELSE <<>>]
  /\ UNCHANGED notDash

\* Dashboard.jsx:91-96, a click on the delete button of a listed project,
\* confirmed: the handler of the current render holds the current list
DashClicksDelete(id) ==
  /\ dash.pc = "shown"
  /\ id \in Members(dash.projects)
  /\ dash.clicks < MaxDeletes
  /\ dash' = [dash EXCEPT !.pending = @ \cup {[id |-> id, seen |-> dash.projects]},
                          !.clicks = @ + 1]
  /\ UNCHANGED notDash

\* Dashboard.jsx:96-98, projectsApi.delete resolves for the request r
DashDeleteSucceeds(r) ==
  /\ r \in dash.pending
  /\ dash' = [dash EXCEPT !.projects = Without(r.seen, r.id),
                          !.deleted = @ \cup {r.id},
                          !.pending = @ \ {r}]
  /\ UNCHANGED notDash

\* Dashboard.jsx:99-101, projectsApi.delete rejects for the request r
DashDeleteFails(r) ==
  /\ r \in dash.pending
  /\ dash' = [dash EXCEPT !.pending = @ \ {r}]
  /\ UNCHANGED notDash

NextDash ==
  \/ \E ok \in BOOLEAN : DashLoads(ok)
  \/ \E id \in ProjectIds : DashClicksDelete(id)
  \/ \E r \in dash.pending : DashDeleteSucceeds(r)
  \/ \E r \in dash.pending : DashDeleteFails(r)

SpecDash == Init /\ [][NextDash]_vars

\* C25 (a deleted project stays deleted): no project whose deletion has
\* succeeded is in the list, whatever the order in which deletions complete.
C25_DeletedStaysDeleted ==
  \A id \in dash.deleted : id \notin Members(dash.projects)

-----------------------------------------------------------------------------
(* AuthProvider, the response interceptor, the AuthModal and the protected  *)
(* pages: AuthContext.js:14-121, api.js:24-34, Dashboard.jsx:51-57,         *)
(* part_004:42-48, Project.jsx:40-46                                        *)

\* the routes of the application: part_000:19-22
ProtectedRoutes == {"/dashboard", "/generate", "/project"}
Routes == {"/"} \cup ProtectedRoutes

\* the status codes a rejected request may carry
RejectStatuses == {400, 401}

\* everything but the authentication state
notAuth == <<session, gpc, generating, project, files, activeFile, previewHtml,
             logs, closedActive, stripIn, outs, calls, pay, gen, dash, chat>>

\* Dashboard.jsx:51-57, part_004:42-48, Project.jsx:40-46: the effect of a
\* protected page, run when it mounts and when isAuthenticated changes
PageEffect(a) ==
  IF a.route \notin ProtectedRoutes THEN a
  ELSE IF ~a.isAuthenticated
  THEN [a EXCEPT !.route = "/",
                 !.earlyRedirect = @ \/ (a.loading /\ a.token # "none")]
  ELSE [a EXCEPT !.dataRequested = TRUE,
                 !.unauthData = @ \/ ~a.isAuthenticated]

\* api.js:24-34, the response interceptor on a rejected request
Intercepted(a, st) ==
  IF st = 401
  THEN [a EXCEPT !.token = "none", !.storedUser = FALSE, !.leaving = TRUE]
  ELSE a

\* AuthContext.js:19-38, checkAuth called by the provider's effect, up to
\* its await
CheckAuthStarts(a) ==
  IF a.token # "none" THEN [a EXCEPT !.getMe = "pending"]
  ELSE [a EXCEPT !.loading = FALSE]

\* the application mounts at route r with the localStorage of a: the state
\* is new (AuthContext.js:15-17), the page's effect runs, then checkAuth
Mounted(a, r) ==
  CheckAuthStarts(PageEffect(
    [AuthUnloaded EXCEPT !.pc = "loaded", !.token = a.token,
                         !.storedUser = a.storedUser, !.route = r,
                         !.earlyRedirect = a.earlyRedirect,
                         !.dataRequested = a.dataRequested,
                         !.unauthData = a.unauthData]))

\* the browser loads the application at route r, localStorage holding a
\* token from an earlier visit or none
AuthLoads(r, tok) ==
  /\ auth.pc = "unloaded"
  /\ auth' = Mounted([auth EXCEPT !.token = tok, !.storedUser = tok # "none"], r)
  /\ UNCHANGED notAuth

\* AuthContext.js:23-25 and 33, getMe resolves
GetMeResolves ==
  /\ auth.getMe = "pending"
  /\ auth' = PageEffect([auth EXCEPT !.getMe = "none", !.user = "u",
                                     !.isAuthenticated = TRUE, !.loading = FALSE])
  /\ UNCHANGED notAuth

\* api.js:24-34 and AuthContext.js:26-33, getMe rejects
GetMeRejects(st) ==
  /\ auth.getMe = "pending"
  /\ auth' = PageEffect([Intercepted(auth, st) EXCEPT
                           !.getMe = "none", !.token = "none", !.storedUser = FALSE,
                           !.user = "none", !.isAuthenticated = FALSE,
                           !.loading = FALSE])
  /\ UNCHANGED notAuth

\* AuthContext.js:284-287 (Navbar.openAuth), part_001:40-42: the AuthModal
\* is opened, which the pages offer while isAuthenticated is false
ModalOpens ==
  /\ auth.pc = "loaded"
  /\ ~auth.isAuthenticated
  /\ ~auth.modalOpen
  /\ auth' = [auth EXCEPT !.modalOpen = TRUE, !.modalError = FALSE]
  /\ UNCHANGED notAuth

\* AuthContext.js:104-114, handleSubmit up to its await; kind is the mode
ModalSubmits(kind) ==
  /\ auth.modalOpen
  /\ auth.login = "none"
  /\ auth' = [auth EXCEPT !.login = kind, !.modalError = FALSE, !.lastLogin = "none"]
  /\ UNCHANGED notAuth

\* AuthContext.js:41-46 / 50-55 and 115, the request resolves
LoginResolves ==
  /\ auth.login # "none"
  /\ auth' = PageEffect([auth EXCEPT !.login = "none", !.token = "T",
                                     !.storedUser = TRUE, !.user = "u",
                                     !.isAuthenticated = TRUE, !.modalOpen = FALSE,
                                     !.lastLogin = "resolved"])
  /\ UNCHANGED notAuth

\* api.js:24-34, AuthContext.js:41 / 50 and 116-120, the request rejects
LoginRejects(st) ==
  /\ auth.login # "none"
  /\ auth' = [Intercepted(auth, st) EXCEPT !.login = "none", !.modalError = TRUE,
                                            !.lastLogin = "rejected"]
  /\ UNCHANGED notAuth

\* AuthContext.js:58-63, logout, which the Navbar offers while
\* isAuthenticated is true (AuthContext.js:325-347)
Logout ==
  /\ auth.isAuthenticated
  /\ auth' = PageEffect([auth EXCEPT !.token = "none", !.storedUser = FALSE,
                                     !.user = "none", !.isAuthenticated = FALSE])
  /\ UNCHANGED notAuth

\* the user follows a link to the route r: part_000:19-22
Navigates(r) ==
  /\ auth.pc = "loaded"
  /\ r # auth.route
  /\ auth' = PageEffect([auth EXCEPT !.route = r])
  /\ UNCHANGED notAuth

\* api.js:24-34, a request of a protected page is answered with 401
ApiRejects ==
  /\ auth.dataRequested
  /\ auth.isAuthenticated
  /\ ~auth.leaving
  /\ auth' = Intercepted(auth, 401)
  /\ UNCHANGED notAuth

\* api.js:30, the browser loads '/' after window.location.href was set:
\* pending requests are dropped and the application mounts anew
PageReloads ==
  /\ auth.leaving
  /\ auth' = Mounted(auth, "/")
  /\ UNCHANGED notAuth

NextAuth ==
  \/ \E r \in Routes, tok \in {"none", "T"} : AuthLoads(r, tok)
  \/ GetMeResolves
  \/ \E st \in RejectStatuses : GetMeRejects(st)
  \/ ModalOpens
  \/ \E kind \in {"login", "register"} : ModalSubmits(kind)
  \/ LoginResolves
  \/ \E st \in RejectStatuses : LoginRejects(st)
  \/ Logout
  \/ \E r \in Routes : Navigates(r)
  \/ ApiRejects
  \/ PageReloads

SpecAuth == Init /\ [][NextAuth]_vars

\* C26 (auth state matches stored token): while the page is not being left,
\* isAuthenticated implies a stored auth_token and a user.
C26_AuthMatchesToken ==
  (auth.isAuthenticated /\ ~auth.leaving) =>
    (auth.token # "none" /\ auth.user # "none")

\* C27 (protected pages wait for the auth check): no protected page has
\* redirected to '/' while checkAuth was pending with a stored token, and no
\* project data was requested while isAuthenticated was false.
C27_WaitForAuthCheck ==
  /\ ~auth.earlyRedirect
  /\ ~auth.unauthData

\* C30 (failed login or registration changes nothing): a step in which the
\* request of the AuthModal rejects leaves localStorage, user and
\* isAuthenticated as they were, and the modal open with its error on a page
\* that is not being left.
C30_FailedLoginChangesNothing ==
  [][(auth.lastLogin = "none" /\ auth'.lastLogin = "rejected") =>
       /\ auth'.token = auth.token
       /\ auth'.storedUser = auth.storedUser
       /\ auth'.user = auth.user
       /\ auth'.isAuthenticated = auth.isAuthenticated
       /\ auth'.modalOpen
       /\ auth'.modalError
       /\ ~auth'.leaving]_vars

-----------------------------------------------------------------------------
(* The /api/chat handler and the client's view of its responses:            *)
(* chat.js:12-25, api.js:214-220                                            *)

\* the request methods, and how req.json() and streamText may end
Methods == {"POST", "GET", "PUT"}
Outcomes == {"ok", "throws"}

\* everything but the handler
notChat == <<session, gpc, generating, project, files, activeFile, previewHtml,
             logs, closedActive, stripIn, outs, calls, pay, gen, dash, auth>>

\* a handler without the method check
HandlerAnyMethod(method, json, model) ==
  IF json = "throws"
  THEN [status |-> 500, method |-> method, json |-> json, model |-> model,
        bodyRead |-> TRUE, modelCalled |-> FALSE, escaped |-> FALSE,
        errorBody |-> TRUE]
  ELSE IF model = "throws"
  THEN [status |-> 500, method |-> method, json |-> json, model |-> model,
        bodyRead |-> TRUE, modelCalled |-> TRUE, escaped |-> FALSE,
        errorBody |-> TRUE]
  ELSE [status |-> 200, method |-> method, json |-> json, model |-> model,
        bodyRead |-> TRUE, modelCalled |-> TRUE, escaped |-> FALSE,
        errorBody |-> FALSE]

\* chat.js:12-25, handler(req): the response for a request with this method
\* whose req.json() and streamText end as given
Handler(method, json, model) ==
  IF method # "POST"
  THEN [status |-> 405, method |-> method, json |-> json, model |-> model,
        bodyRead |-> FALSE, modelCalled |-> FALSE, escaped |-> FALSE,
        errorBody |-> FALSE]
  ELSE IF json = "throws"
  THEN [status |-> 500, method |-> method, json |-> json, model |-> model,
        bodyRead |-> TRUE, modelCalled |-> FALSE, escaped |-> FALSE,
        errorBody |-> TRUE]
  ELSE IF model = "throws"
  THEN [status |-> 500, method |-> method, json |-> json, model |-> model,
        bodyRead |-> TRUE, modelCalled |-> TRUE, escaped |-> FALSE,
        errorBody |-> TRUE]
  ELSE [status |-> 200, method |-> method, json |-> json, model |-> model,
        bodyRead |-> TRUE, modelCalled |-> TRUE, escaped |-> FALSE,
        errorBody |-> FALSE]

\* the handler runs on the request the pending fetch stands for
HandlerRuns(method, json, model) ==
  /\ pc = "fetch"
  /\ chat.status = 0
  /\ chat' = Handler(method, json, model)
  /\ UNCHANGED notChat

\* api.js:214-226, fetch resolves with the handler's response
HandlerResponds(b) ==
  /\ chat.status # 0
  /\ FetchResponds(IF chat.status = 200 THEN "ok" ELSE "notok", b)

NextChat ==
  \/ StartGeneration
  \/ \E m \in Methods, j \in Outcomes, o \in Outcomes : HandlerRuns(m, j, o)
  \/ \E b \in PairBodies : HandlerResponds(b)
  \/ \E k \in 1..Len(body) : ReadChunk(k)
  \/ ReadDone
  \/ \E msg \in ReadErrors : ReadThrows(msg)

SpecChat == Init /\ [][NextChat]_vars

\* C29 (handler errors): a request that is not a POST is answered 405 with
\* the body not read and the model not called; a POST whose parsing or model
\* start throws is answered 500 with a JSON error body; no exception leaves
\* the handler; and once the client has either response its events are the
\* initial status event and exactly one error event.
C29_HandlerErrors ==
  /\ ~chat.escaped
  /\ (chat.status # 0 /\ chat.method # "POST") =>
       (chat.status = 405 /\ ~chat.bodyRead /\ ~chat.modelCalled)
  /\ (chat.method = "POST" /\ (chat.json = "throws" \/ chat.model = "throws")) =>
       (chat.status = 500 /\ chat.errorBody)
  /\ (chat.method = "POST" /\ chat.json = "throws") => ~chat.modelCalled
  /\ (chat.status \in {405, 500} /\ response # "none") =>
       /\ response = "notok"
       /\ Len(OfType(events, "error")) = 1
       /\ events = <<FirstStatus, ErrorEvent("Brain Connection Failed")>>
       /\ pc = "done"

\* the client received a 405 answer
C29_Witness ==
  /\ chat.status = 405
  /\ chat.method = "GET"
  /\ response = "notok"
  /\ Len(events) = 2

====
